---------------------------- MODULE Spec2Model ----------------------------
(***************************************************************************)
(* Model of the unstructured-text -> structured-JSON pipeline              *)
(* (src/pipeline.py, src/models.py).                                       *)
(*                                                                         *)
(* Text is modelled character by character: a Python str is a sequence of  *)
(* one-character strings.  Python floats are modelled as fixed-point       *)
(* integers in units of 10^-5 (SCALE), so that round(v, 4) does something. *)
(***************************************************************************)
EXTENDS Integers, Sequences, FiniteSets, TLC

VARIABLES
    \* ---- the batch run of main() ---------------------------------------
    pc,          \* position of main(): "config", "init_db", "discover",
                 \* "read", "attempt", "store", and the terminal positions
    env_token,   \* value of DATABRICKS_TOKEN in the environment ("" = unset)
    sample_dir,  \* SAMPLE_DIR: name of each .txt file -> whether it reads as UTF-8
    db,          \* the SQLite file at DB_PATH: [table, rows, seq]
    txt_files,   \* main(): the sorted list of discovered files
    idx,         \* main(): index in txt_files of the file being processed
    results,     \* main(): the list of per-file result dicts
    endpoint,    \* how the serving endpoint will answer the next request
    body,        \* extract_to_json: the request body
    attempt,     \* extract_to_json: the loop variable
    last_exc,    \* extract_to_json: last_exc
    profile,     \* process_file: the validated profile (NoProfile before)
    requests,    \* the requests the endpoint received for the current file
    raised,      \* the exception that left the last call of extract_to_json
                 \* or, when main() has crashed, main() itself
    \* ---- the functions applied on their own (SpecInfer, SpecParse, SpecStore)
    arg,         \* the argument of the function applied
    ret          \* its result

vars == <<pc, env_token, sample_dir, db, txt_files, idx, results,
          endpoint, body, attempt, last_exc, profile, requests, raised, arg, ret>>

runVarsButPc == <<env_token, sample_dir, txt_files, idx, results,
                  endpoint, body, attempt, last_exc, profile, requests, raised>>

\* The variables of the batch run, the database apart.
runVars == <<pc, env_token, sample_dir, txt_files, idx, results,
             endpoint, body, attempt, last_exc, profile, requests, raised>>

-----------------------------------------------------------------------------
(* Characters and strings                                                  *)

\* The backtick character U+0060 (written out: TLA+ strings cannot hold it).
BT == "backtick"

\* The characters of the model, in code-point order.
CHARS ==
    << "\n", " ", "\"", ",", "-", ".", "/",
       "0", "1", "2", "3", "4", "5", "6", "7", "8", "9", ":",
       "A", "B", "C", "D", "E", "F", "G", "H", "I", "J", "K", "L", "M",
       "N", "O", "P", "Q", "R", "S", "T", "U", "V", "W", "X", "Y", "Z",
       "[", "]", "_", BT,
       "a", "b", "c", "d", "e", "f", "g", "h", "i", "j", "k", "l", "m",
       "n", "o", "p", "q", "r", "s", "t", "u", "v", "w", "x", "y", "z",
       "{", "}" >>

\* ord(c), relative to the characters of the model.
Ord(c) == CHOOSE i \in 1..Len(CHARS) : CHARS[i] = c

UPPERCASE == << "A", "B", "C", "D", "E", "F", "G", "H", "I", "J", "K", "L", "M",
                "N", "O", "P", "Q", "R", "S", "T", "U", "V", "W", "X", "Y", "Z" >>
LOWERCASE == << "a", "b", "c", "d", "e", "f", "g", "h", "i", "j", "k", "l", "m",
                "n", "o", "p", "q", "r", "s", "t", "u", "v", "w", "x", "y", "z" >>

\* str.lower(), one character.
LowerChar(c) ==
    IF \E i \in 1..Len(UPPERCASE) : UPPERCASE[i] = c
    THEN LOWERCASE[CHOOSE i \in 1..Len(UPPERCASE) : UPPERCASE[i] = c]
    ELSE c

\* str.lower()
Lower(s) == [i \in 1..Len(s) |-> LowerChar(s[i])]

\* s[i:i+len(t)] == t
MatchAt(s, i, t) ==
    /\ i >= 1
    /\ i + Len(t) - 1 <= Len(s)
    /\ \A j \in 1..Len(t) : s[i + j - 1] = t[j]

\* t in s
Contains(s, t) == \E i \in 1..(Len(s) + 1) : MatchAt(s, i, t)

\* s[:n]
Take(s, n) == SubSeq(s, 1, IF Len(s) < n THEN Len(s) ELSE n)

\* s[n:]  (n counted from 1: the suffix starting at position n)
From(s, n) == SubSeq(s, n, Len(s))

\* str comparison s < t (lexicographic by code point)
RECURSIVE StrLess(_, _)
StrLess(s, t) ==
    IF t = <<>> THEN FALSE
    ELSE IF s = <<>> THEN TRUE
    ELSE IF s[1] # t[1] THEN Ord(s[1]) < Ord(t[1])
    ELSE StrLess(Tail(s), Tail(t))

-----------------------------------------------------------------------------
(* Python values and exceptions                                            *)

QUOTE == "\""
NL == "\n"

\* str.isspace() on the characters of the model; also the regex class \s.
IsSpace(c) == c \in {" ", NL}

\* An exception object: its class, the text and the input excerpt its message
\* holds, and (json.JSONDecodeError only) the document in its .doc attribute.
Exc(type, text, excerpt, doc) ==
    [type |-> type, text |-> text, excerpt |-> excerpt, doc |-> doc]

NoExc == Exc("None", "", <<>>, <<>>)

\* The classes of the exceptions the model raises, each with its base class.
BaseOf(type) ==
    CASE type = "JSONDecodeError" -> "ValueError"
      [] type = "ValidationError" -> "ValueError"
      [] type = "UnicodeDecodeError" -> "ValueError"
      [] type = "HTTPStatusError" -> "HTTPError"
      [] type = "ConnectError" -> "TransportError"
      [] type = "ReadTimeout" -> "TransportError"
      [] type = "TransportError" -> "HTTPError"
      [] type = "OperationalError" -> "Exception"
      [] type = "HTTPError" -> "Exception"
      [] type = "ValueError" -> "Exception"
      [] type = "KeyError" -> "Exception"
      [] type = "IndexError" -> "Exception"
      [] type = "TypeError" -> "Exception"
      [] type = "RuntimeError" -> "Exception"
      [] OTHER -> "BaseException"

\* issubclass(type, cls)
RECURSIVE IsSubclass(_, _)
IsSubclass(type, cls) ==
    IF type = cls THEN TRUE
    ELSE IF type \in {"Exception", "BaseException", "None"} THEN FALSE
    ELSE IsSubclass(BaseOf(type), cls)

\* repr(s) of a str: quotes around it, a newline written as backslash n.
\* (No string of the model holds an apostrophe, so the quote is always '.)
RECURSIVE ReprBody(_)
ReprBody(s) ==
    IF s = <<>> THEN <<>>
    ELSE IF Len(s) = 1 THEN (IF s[1] = NL THEN <<"backslash", "n">> ELSE s)
    ELSE LET h == Len(s) \div 2
         IN  ReprBody(SubSeq(s, 1, h)) \o ReprBody(SubSeq(s, h + 1, Len(s)))

Repr(s) == <<"'">> \o ReprBody(s) \o <<"'">>

-----------------------------------------------------------------------------
(* json.loads on the JSON the model writes: objects, arrays, strings       *)
(* without escapes, numbers without exponent, null, true, false, NaN.  A   *)
(* float is a fixed-point integer in units of 1/SCALE.                     *)

SCALE == 100000
FRAC_DIGITS == 5

S_null  == << "n", "u", "l", "l" >>
S_true  == << "t", "r", "u", "e" >>
S_false == << "f", "a", "l", "s", "e" >>
S_NaN   == << "N", "a", "N" >>

IsDigit(c) == c \in {"0", "1", "2", "3", "4", "5", "6", "7", "8", "9"}
DigitVal(c) == Ord(c) - Ord("0")

\* The first position >= i of s that holds no whitespace (Len(s)+1 if none).
SkipSpace(s, i) ==
    CHOOSE j \in i..(Len(s) + 1) :
        /\ j = Len(s) + 1 \/ ~IsSpace(s[j])
        /\ \A k \in i..(j - 1) : IsSpace(s[k])

\* The first position >= i of s that holds no digit.
SkipDigits(s, i) ==
    CHOOSE j \in i..(Len(s) + 1) :
        /\ j = Len(s) + 1 \/ ~IsDigit(s[j])
        /\ \A k \in i..(j - 1) : IsDigit(s[k])

\* int(s[i:j]) of a run of digits.
RECURSIVE DigitsVal(_, _, _)
DigitsVal(s, i, j) ==
    IF j <= i THEN 0 ELSE DigitsVal(s, i, j - 1) * 10 + DigitVal(s[j - 1])

RECURSIVE Pow10(_)
Pow10(n) == IF n <= 0 THEN 1 ELSE 10 * Pow10(n - 1)

\* The result of a scan: did it match, the value, the position after it.
JFail == [ok |-> FALSE, val |-> <<"none">>, pos |-> 0]
JOk(val, pos) == [ok |-> TRUE, val |-> val, pos |-> pos]

\* json.decoder.py_scanstring (strict): s[i] is the opening quote.  The
\* string ends at the next quote; a control character before it is an error.
ParseString(s, i) ==
    LET ends == {j \in (i + 1)..Len(s) : s[j] = QUOTE \/ s[j] = NL}
    IN  IF ends = {} THEN JFail
        ELSE LET j == CHOOSE x \in ends : \A y \in ends : x <= y
             IN  IF s[j] = NL THEN JFail
                 ELSE JOk(<<"str", SubSeq(s, i + 1, j - 1)>>, j + 1)

\* json.scanner NUMBER_RE: (-?(?:0|[1-9]\d*))(\.\d+)? matched at i.
\* Fraction digits beyond FRAC_DIGITS are below the model's resolution.
ParseNumber(s, i) ==
    LET neg == i <= Len(s) /\ s[i] = "-"
        a   == IF neg THEN i + 1 ELSE i
        b   == IF a <= Len(s) /\ s[a] = "0" THEN a + 1 ELSE SkipDigits(s, a)
        hasFrac == /\ b + 1 <= Len(s)
                   /\ s[b] = "."
                   /\ IsDigit(s[b + 1])
        c   == IF hasFrac THEN SkipDigits(s, b + 1) ELSE b
        cut == IF c - (b + 1) > FRAC_DIGITS THEN b + 1 + FRAC_DIGITS ELSE c
        frac == IF hasFrac
                THEN DigitsVal(s, b + 1, cut) * Pow10(FRAC_DIGITS - (cut - (b + 1)))
                ELSE 0
        mag == DigitsVal(s, a, b) * SCALE + frac
    IN  IF b = a THEN JFail
        ELSE JOk(<<"num", IF neg THEN 0 - mag ELSE mag>>, c)

\* d[key] = val on a dict (a function from keys to values).
DictSet(d, key, val) ==
    [x \in (DOMAIN d) \cup {key} |-> IF x = key THEN val ELSE d[x]]

EmptyDict == [x \in {} |-> <<"none">>]

RECURSIVE ParseValue(_, _), ParseMembers(_, _, _), ParseElements(_, _, _)

\* json.decoder.JSONArray after the opening bracket and its whitespace, on a
\* non-empty array: a value, then "," or "]".
ParseElements(s, i, acc) ==
    LET v == ParseValue(s, i)
        m == SkipSpace(s, v.pos)
        l == Append(acc, v.val)
    IN  IF ~v.ok THEN JFail
        ELSE IF m > Len(s) THEN JFail
        ELSE IF s[m] = "]" THEN JOk(<<"list", l>>, m + 1)
        ELSE IF s[m] = "," THEN ParseElements(s, SkipSpace(s, m + 1), l)
        ELSE JFail

\* json.decoder.JSONObject after the opening brace and the first key's
\* whitespace: s[i] must open a key.
ParseMembers(s, i, acc) ==
    IF ~(i <= Len(s) /\ s[i] = QUOTE) THEN JFail
    ELSE
      LET key == ParseString(s, i)
          k   == SkipSpace(s, key.pos)
      IN  IF ~key.ok THEN JFail
          ELSE IF ~(k <= Len(s) /\ s[k] = ":") THEN JFail
          ELSE
            LET v == ParseValue(s, SkipSpace(s, k + 1))
                m == SkipSpace(s, v.pos)
                d == DictSet(acc, key.val[2], v.val)
            IN  IF ~v.ok THEN JFail
                ELSE IF m > Len(s) THEN JFail
                ELSE IF s[m] = "}" THEN JOk(<<"obj", d>>, m + 1)
                ELSE IF s[m] = "," THEN ParseMembers(s, SkipSpace(s, m + 1), d)
                ELSE JFail

\* json.scanner.py_make_scanner._scan_once at position i.
ParseValue(s, i) ==
    IF i > Len(s) THEN JFail
    ELSE IF s[i] = QUOTE THEN ParseString(s, i)
    ELSE IF s[i] = "{" THEN
        LET j == SkipSpace(s, i + 1)
        IN  IF j <= Len(s) /\ s[j] = "}" THEN JOk(<<"obj", EmptyDict>>, j + 1)
            ELSE ParseMembers(s, j, EmptyDict)
    ELSE IF s[i] = "[" THEN
        LET j == SkipSpace(s, i + 1)
        IN  IF j <= Len(s) /\ s[j] = "]" THEN JOk(<<"list", <<>>>>, j + 1)
            ELSE ParseElements(s, j, <<>>)
    ELSE IF MatchAt(s, i, S_null) THEN JOk(<<"null">>, i + Len(S_null))
    ELSE IF MatchAt(s, i, S_true) THEN JOk(<<"bool", TRUE>>, i + Len(S_true))
    ELSE IF MatchAt(s, i, S_false) THEN JOk(<<"bool", FALSE>>, i + Len(S_false))
    ELSE IF MatchAt(s, i, S_NaN) THEN JOk(<<"nan">>, i + Len(S_NaN))
    ELSE ParseNumber(s, i)

\* The result of a call: a value, or the exception raised.
Return(val) == [ok |-> TRUE, val |-> val, exc |-> NoExc]
Raise(exc) == [ok |-> FALSE, val |-> <<"none">>, exc |-> exc]

\* json.loads(doc): one value, whitespace around it, nothing after it.
\* A JSONDecodeError's message names a position, not the text; the whole
\* document is its .doc attribute.
json_loads(doc) ==
    LET v == ParseValue(doc, SkipSpace(doc, 1))
    IN  IF v.ok /\ SkipSpace(doc, v.pos) = Len(doc) + 1
        THEN Return(v.val)
        ELSE Raise(Exc("JSONDecodeError", "msg: line column (char pos)", <<>>, doc))

-----------------------------------------------------------------------------
(* src/models.py                                                           *)

S_company  == << "c", "o", "m", "p", "a", "n", "y" >>
S_buyer    == << "b", "u", "y", "e", "r" >>
S_pe       == << "p", "e" >>
S_capital  == << "c", "a", "p", "i", "t", "a", "l" >>
S_ventures == << "v", "e", "n", "t", "u", "r", "e", "s" >>

\* The declared fields of CompanyProfile, in declaration order: the name, the
\* type (annotation; kind is its shape), and the name as JSON key.
CompanyProfile ==
    << [name |-> "company_name", kind |-> "str", annotation |-> "<class str>",
        key |-> << "c", "o", "m", "p", "a", "n", "y", "_", "n", "a", "m", "e" >>],
       [name |-> "industry", kind |-> "str", annotation |-> "<class str>",
        key |-> << "i", "n", "d", "u", "s", "t", "r", "y" >>],
       [name |-> "headquarters", kind |-> "optstr", annotation |-> "Optional[str]",
        key |-> << "h", "e", "a", "d", "q", "u", "a", "r", "t", "e", "r", "s" >>],
       [name |-> "employee_count", kind |-> "optint", annotation |-> "Optional[int]",
        key |-> << "e", "m", "p", "l", "o", "y", "e", "e", "_", "c", "o", "u", "n", "t" >>],
       [name |-> "revenue_range", kind |-> "optstr", annotation |-> "Optional[str]",
        key |-> << "r", "e", "v", "e", "n", "u", "e", "_", "r", "a", "n", "g", "e" >>],
       [name |-> "key_products", kind |-> "liststr", annotation |-> "list[str]",
        key |-> << "k", "e", "y", "_", "p", "r", "o", "d", "u", "c", "t", "s" >>],
       [name |-> "description", kind |-> "str", annotation |-> "<class str>",
        key |-> << "d", "e", "s", "c", "r", "i", "p", "t", "i", "o", "n" >>],
       [name |-> "confidence_score", kind |-> "float", annotation |-> "<class float>",
        key |-> << "c", "o", "n", "f", "i", "d", "e", "n", "c", "e", "_", "s", "c", "o", "r", "e" >>] >>

\* The declared fields of BuyerProfile.
BuyerProfile ==
    << [name |-> "company_name", kind |-> "str", annotation |-> "<class str>",
        key |-> << "c", "o", "m", "p", "a", "n", "y", "_", "n", "a", "m", "e" >>],
       [name |-> "industry", kind |-> "str", annotation |-> "<class str>",
        key |-> << "i", "n", "d", "u", "s", "t", "r", "y" >>],
       [name |-> "acquisition_interests", kind |-> "liststr", annotation |-> "list[str]",
        key |-> << "a", "c", "q", "u", "i", "s", "i", "t", "i", "o", "n", "_", "i", "n", "t", "e", "r", "e", "s", "t", "s" >>],
       [name |-> "budget_range", kind |-> "optstr", annotation |-> "Optional[str]",
        key |-> << "b", "u", "d", "g", "e", "t", "_", "r", "a", "n", "g", "e" >>],
       [name |-> "key_contacts", kind |-> "listdict", annotation |-> "list[dict]",
        key |-> << "k", "e", "y", "_", "c", "o", "n", "t", "a", "c", "t", "s" >>],
       [name |-> "deal_history", kind |-> "liststr", annotation |-> "list[str]",
        key |-> << "d", "e", "a", "l", "_", "h", "i", "s", "t", "o", "r", "y" >>],
       [name |-> "confidence_score", kind |-> "float", annotation |-> "<class float>",
        key |-> << "c", "o", "n", "f", "i", "d", "e", "n", "c", "e", "_", "s", "c", "o", "r", "e" >>] >>

\* schema_class.model_fields
model_fields(schema_class) ==
    IF schema_class = "BuyerProfile" THEN BuyerProfile ELSE CompanyProfile

\* float NaN
NAN == <<"nan">>

\* round(v, 4): the nearest multiple of 10^-4.  A decimal that ends in 5 at
\* the fifth place lies, as a binary float, just above or just below the
\* tie (or on it): either neighbour can be the result.
Round4(v) ==
    LET q == v \div 10
        r == v % 10
    IN  IF r < 5 THEN {q * 10}
        ELSE IF r > 5 THEN {(q + 1) * 10}
        ELSE {q * 10, (q + 1) * 10}

\* validate_confidence that clamps an out-of-range value into [0, 1].
validate_confidence_clamp(v) ==
    IF v = NAN THEN {Return(<<"num", 0>>)}
    ELSE LET c == IF v[2] < 0 THEN 0 ELSE IF v[2] > SCALE THEN SCALE ELSE v[2]
         IN  {Return(<<"num", r>>) : r \in Round4(c)}

\* CompanyProfile.validate_confidence / BuyerProfile.validate_confidence:
\* the possible results on the float v (<<"num", n>> or NAN).
validate_confidence(v) ==
    IF v = NAN \/ ~(0 <= v[2] /\ v[2] <= SCALE)
    THEN {Raise(Exc("ValueError", "confidence_score must be between 0 and 1, got", <<>>, <<>>))}
    ELSE {Return(<<"num", r>>) : r \in Round4(v[2])}

\* pydantic (lax mode) float of a JSON value: a number, NaN, or a str that
\* is a decimal number; bool counts as 0.0 or 1.0.
CoerceFloat(v) ==
    CASE v[1] = "num" -> Return(v)
      [] v[1] = "nan" -> Return(NAN)
      [] v[1] = "bool" -> Return(<<"num", IF v[2] THEN SCALE ELSE 0>>)
      [] v[1] = "str" ->
            LET n == ParseNumber(v[2], 1)
            IN  IF n.ok /\ n.pos = Len(v[2]) + 1 THEN Return(n.val)
                ELSE Raise(Exc("ValidationError", "float_parsing", <<>>, <<>>))
      [] OTHER -> Raise(Exc("ValidationError", "float_type", <<>>, <<>>))

\* pydantic (lax mode): is v acceptable for a field of this kind (the float
\* field apart)?
FieldAccepts(kind, v) ==
    CASE kind = "str" -> v[1] = "str"
      [] kind = "optstr" -> v[1] \in {"str", "null"}
      [] kind = "optint" ->
            \/ v[1] \in {"null", "bool"}
            \/ v[1] = "num" /\ v[2] % SCALE = 0
            \/ /\ v[1] = "str"
               /\ LET n == ParseNumber(v[2], 1)
                  IN  n.ok /\ n.pos = Len(v[2]) + 1 /\ n.val[2] % SCALE = 0
      [] kind = "liststr" ->
            v[1] = "list" /\ \A i \in 1..Len(v[2]) : v[2][i][1] = "str"
      [] kind = "listdict" ->
            v[1] = "list" /\ \A i \in 1..Len(v[2]) : v[2][i][1] = "obj"
      [] OTHER -> TRUE

\* The value pydantic stores for an accepted field value.
FieldValue(kind, v) ==
    IF kind = "optint" /\ v[1] = "str" THEN ParseNumber(v[2], 1).val
    ELSE IF kind = "optint" /\ v[1] = "bool" THEN <<"num", IF v[2] THEN SCALE ELSE 0>>
    ELSE v

\* The default of a field that has one.
FieldDefault(kind) ==
    IF kind \in {"liststr", "listdict"} THEN <<"list", <<>>>> ELSE <<"null">>

HasDefault(kind) == kind \in {"optstr", "optint", "liststr", "listdict"}

\* schema_class(**extracted): the possible results, a validated profile or
\* pydantic's ValidationError (a ValueError), whose message lists the fields
\* that failed.  Keys that name no field are ignored.
Construct(schema_class, extracted) ==
    LET fs == model_fields(schema_class)
        present(i) == fs[i].key \in DOMAIN extracted
        conf == CHOOSE i \in 1..Len(fs) : fs[i].kind = "float"
        coerced == IF present(conf) THEN CoerceFloat(extracted[fs[conf].key])
                   ELSE Raise(Exc("ValidationError", "missing", <<>>, <<>>))
        validated == IF coerced.ok THEN validate_confidence(coerced.val)
                     ELSE {coerced}
        bad(i, r) ==
            IF i = conf THEN ~r.ok
            ELSE IF ~present(i) THEN ~HasDefault(fs[i].kind)
            ELSE ~FieldAccepts(fs[i].kind, extracted[fs[i].key])
        failed(r) == SelectSeq([i \in 1..Len(fs) |-> i], LAMBDA i : bad(i, r))
        data(r) ==
            [n \in {fs[i].name : i \in 1..Len(fs)} |->
                LET i == CHOOSE j \in 1..Len(fs) : fs[j].name = n
                IN  IF i = conf THEN r.val
                    ELSE IF present(i) THEN FieldValue(fs[i].kind, extracted[fs[i].key])
                    ELSE FieldDefault(fs[i].kind)]
    IN  { IF failed(r) = <<>>
          THEN Return([type |-> schema_class, data |-> data(r)])
          ELSE Raise(Exc("ValidationError", "validation errors for the schema: ",
                         [k \in 1..Len(failed(r)) |-> fs[failed(r)[k]].name], <<>>)) :
          r \in validated }

\* The registry with "buyer" moved before "company".
SCHEMA_REGISTRY_reordered ==
    << <<S_buyer, "BuyerProfile">>,
       <<S_company, "CompanyProfile">>,
       <<S_pe, "BuyerProfile">>,
       <<S_capital, "BuyerProfile">>,
       <<S_ventures, "BuyerProfile">> >>

\* SCHEMA_REGISTRY: a dict, iterated in insertion order.
SCHEMA_REGISTRY ==
    << <<S_company, "CompanyProfile">>,
       <<S_buyer, "BuyerProfile">>,
       <<S_pe, "BuyerProfile">>,
       <<S_capital, "BuyerProfile">>,
       <<S_ventures, "BuyerProfile">> >>

\* The loop of infer_schema from registry entry i on.
RECURSIVE InferFrom(_, _)
InferFrom(name_lower, i) ==
    IF i > Len(SCHEMA_REGISTRY) THEN "CompanyProfile"
    ELSE IF Contains(name_lower, SCHEMA_REGISTRY[i][1]) THEN SCHEMA_REGISTRY[i][2]
    ELSE InferFrom(name_lower, i + 1)

\* infer_schema(filename)
infer_schema(filename) == InferFrom(Lower(filename), 1)

-----------------------------------------------------------------------------
(* src/pipeline.py: the response parser                                    *)

FENCE == << BT, BT, BT >>
S_json == << "j", "s", "o", "n" >>

\* re.sub(r"```(?:json)?\s*", "", s), scanning from position i: every
\* leftmost non-overlapping match is deleted, wherever it stands.
RECURSIVE SubFences(_, _)
SubFences(s, i) ==
    LET starts == {x \in i..Len(s) : MatchAt(s, x, FENCE)}
    IN  IF starts = {} THEN From(s, i)
        ELSE LET m == CHOOSE x \in starts : \A y \in starts : x <= y
                 j == m + Len(FENCE)
                 k == IF MatchAt(s, j, S_json) THEN j + Len(S_json) ELSE j
             IN  SubSeq(s, i, m - 1) \o SubFences(s, SkipSpace(s, k))

\* str.rstrip(chars)
RStrip(s, chars) ==
    LET keep == {i \in 1..Len(s) : s[i] \notin chars}
    IN  IF keep = {} THEN <<>>
        ELSE SubSeq(s, 1, CHOOSE x \in keep : \A y \in keep : x >= y)

\* str.strip(): whitespace off both ends.
Strip(s) == RStrip(From(s, SkipSpace(s, 1)), {" ", NL})

\* The cleaned text of extract_json_from_text.
Cleaned(raw) == Strip(RStrip(Strip(SubFences(raw, 1)), {BT}))

\* re.search(r"\{.*\}", s, re.DOTALL): the leftmost match starts at the first
\* "{" and, .* being greedy, ends at the last "}"; <<0, 0>> when no match.
SearchBraces(s) ==
    LET opens  == {i \in 1..Len(s) : s[i] = "{"}
        closes == {i \in 1..Len(s) : s[i] = "}"}
        first  == CHOOSE x \in opens : \A y \in opens : x <= y
        last   == CHOOSE x \in closes : \A y \in closes : x >= y
    IN  IF opens = {} \/ closes = {} THEN <<0, 0>>
        ELSE IF last < first THEN <<0, 0>>
        ELSE <<first, last>>

\* The length of the excerpt of the response in the ValueError's message.
EXCERPT_LEN == 200

\* raw[:200] with no truncation.
Excerpt_untruncated(raw) == raw

\* raw[:200]
Excerpt(raw) == Take(raw, EXCERPT_LEN)

\* extract_json_from_text(raw)
extract_json_from_text(raw) ==
    LET cleaned == Cleaned(raw)
        match   == SearchBraces(cleaned)
    IN  IF match = <<0, 0>>
        THEN Raise(Exc("ValueError", "No JSON object found in LLM response: ",
                       Repr(Excerpt(raw)), <<>>))
        ELSE json_loads(SubSeq(cleaned, match[1], match[2]))

-----------------------------------------------------------------------------
(* src/pipeline.py: constants, prompt, storage                             *)

MAX_RETRIES == 2
MODEL_VERSION == "databricks-meta-llama-3-3-70b-instruct"
MAX_TOKENS == 2000

\* str(SAMPLE_DIR / name)
S_sample_dir == << "e", "x", "a", "m", "p", "l", "e", "s", "/", "s", "a", "m", "p", "l", "e", "_", "t", "e", "x", "t", "s", "/" >>
PathOf(name) == S_sample_dir \o name

\* build_system_prompt(schema_class): the fixed text around one line per
\* declared field, '  - "name": annotation (required | optional...)'.
build_system_prompt(schema_class) ==
    LET fs == model_fields(schema_class)
    IN  << "You are a precise data extraction assistant. ... with these fields:",
           [i \in 1..Len(fs) |->
               << fs[i].name, fs[i].annotation,
                  IF HasDefault(fs[i].kind) THEN "optional, use null if unknown"
                  ELSE "required" >>],
           "RULES: 1. ... 7. Do NOT invent or hallucinate data." >>

\* The request body of extract_to_json.
RequestBody(raw_text, schema_class) ==
    [system |-> build_system_prompt(schema_class),
     user |-> <<"Extract structured data from this text:\n\n", raw_text>>,
     max_tokens |-> MAX_TOKENS]

DIGITS == << "0", "1", "2", "3", "4", "5", "6", "7", "8", "9" >>

\* str(n) of an int n >= 0.
RECURSIVE IntStr(_)
IntStr(n) ==
    IF n < 10 THEN <<DIGITS[n + 1]>>
    ELSE IntStr(n \div 10) \o <<DIGITS[(n % 10) + 1]>>

\* The JSON text of a float v >= 0: the shortest decimal, one fraction digit
\* at least.
FloatStr(v) ==
    LET f == v % SCALE
        padded == [i \in 1..FRAC_DIGITS |->
                      DIGITS[((f \div Pow10(FRAC_DIGITS - i)) % 10) + 1]]
        frac == RStrip(padded, {"0"})
    IN  IntStr(v \div SCALE) \o <<".">> \o (IF frac = <<>> THEN <<"0">> ELSE frac)

\* sep.join(parts)
RECURSIVE Join(_, _)
Join(parts, sep) ==
    IF parts = <<>> THEN <<>>
    ELSE IF Len(parts) = 1 THEN parts[1]
    ELSE parts[1] \o sep \o Join(Tail(parts), sep)

\* The elements of a set of strings as a sorted list.
RECURSIVE SortedSeq(_)
SortedSeq(S) ==
    IF S = {} THEN <<>>
    ELSE LET m == CHOOSE x \in S : \A y \in S : x = y \/ StrLess(x, y)
         IN  <<m>> \o SortedSeq(S \ {m})

\* The compact JSON text of a validated field value.  (The keys of a nested
\* dict are written in sorted order: the model keeps no insertion order.)
RECURSIVE ToJson(_, _)
ToJson(v, kind) ==
    CASE v[1] = "str" -> <<QUOTE>> \o v[2] \o <<QUOTE>>
      [] v[1] = "null" -> S_null
      [] v[1] = "bool" -> IF v[2] THEN S_true ELSE S_false
      [] v[1] = "nan" -> S_NaN
      [] v[1] = "num" ->
            IF kind = "float" THEN FloatStr(v[2])
            ELSE IF v[2] < 0 THEN <<"-">> \o IntStr((0 - v[2]) \div SCALE)
            ELSE IntStr(v[2] \div SCALE)
      [] v[1] = "list" ->
            <<"[">> \o Join([i \in 1..Len(v[2]) |-> ToJson(v[2][i], "any")], <<",">>)
                    \o <<"]">>
      [] v[1] = "obj" ->
            LET ks == SortedSeq(DOMAIN v[2])
            IN  <<"{">> \o Join([i \in 1..Len(ks) |->
                                    <<QUOTE>> \o ks[i] \o <<QUOTE, ":">>
                                        \o ToJson(v[2][ks[i]], "any")], <<",">>)
                        \o <<"}">>

\* profile.model_dump_json(): every declared field, in declaration order.
model_dump_json(p) ==
    LET fs == model_fields(p.type)
    IN  <<"{">> \o Join([i \in 1..Len(fs) |->
                            <<QUOTE>> \o fs[i].key \o <<QUOTE, ":">>
                                \o ToJson(p.data[fs[i].name], fs[i].kind)], <<",">>)
                \o <<"}">>

\* datetime.now(timezone.utc).isoformat(): the time of the call.
UTCNOW == "the time of the call"

\* The database file: has CREATE TABLE run, the rows of extractions, and the
\* last id AUTOINCREMENT gave out.
NewDb == [table |-> FALSE, rows |-> <<>>, seq |-> 0]

\* init_db(db_path) on a database SQLite can open: CREATE TABLE IF NOT
\* EXISTS, commit.
init_db(d) ==
    [ok |-> TRUE, db |-> [d EXCEPT !.table = TRUE], exc |-> NoExc]

\* The row store_result inserts.
Row(id, p, source_file, now) ==
    [id |-> id,
     source_file |-> source_file,
     schema_type |-> p.type,
     company_name |-> p.data["company_name"][2],
     industry |-> p.data["industry"][2],
     extracted_json |-> model_dump_json(p),
     confidence_score |-> p.data["confidence_score"][2],
     model_version |-> MODEL_VERSION,
     extracted_at |-> now]

\* store_result as an upsert: a row of the same source file is replaced.
store_result_upsert(d, p, source_file, now) ==
    IF ~d.table
    THEN [ok |-> FALSE, db |-> d,
          exc |-> Exc("OperationalError", "no such table: extractions", <<>>, <<>>)]
    ELSE LET old == {i \in 1..Len(d.rows) : d.rows[i].source_file = source_file}
         IN  IF old = {}
             THEN [ok |-> TRUE, exc |-> NoExc,
                   db |-> [d EXCEPT !.rows = Append(@, Row(d.seq + 1, p, source_file, now)),
                                    !.seq = @ + 1]]
             ELSE [ok |-> TRUE, exc |-> NoExc,
                   db |-> [d EXCEPT !.rows =
                              [i \in 1..Len(d.rows) |->
                                  IF i \in old THEN Row(d.rows[i].id, p, source_file, now)
                                  ELSE d.rows[i]]]]

\* store_result(profile, source_file, db_path) on a database SQLite can open
\* and write: INSERT, commit.  Without the table the INSERT fails.
store_result(d, p, source_file, now) ==
    IF ~d.table
    THEN [ok |-> FALSE, db |-> d,
          exc |-> Exc("OperationalError", "no such table: extractions", <<>>, <<>>)]
    ELSE [ok |-> TRUE, exc |-> NoExc,
          db |-> [d EXCEPT !.rows = Append(@, Row(d.seq + 1, p, source_file, now)),
                           !.seq = @ + 1]]

\* sqlite3.connect / execute / commit failing on a database that cannot be
\* opened or written (no such directory, read-only, locked, disk full): the
\* transaction is rolled back.
StorageFailure(d) ==
    [ok |-> FALSE, db |-> d,
     exc |-> Exc("OperationalError", "unable to open or write the database", <<>>, <<>>)]

-----------------------------------------------------------------------------
(* The serving endpoint and the sample directory (the environment)         *)

\* The number of .txt files in the sample directory, at most.
MaxFiles == 2

S_acme_company_txt == << "a", "c", "m", "e", "_", "c", "o", "m", "p", "a", "n", "y", ".", "t", "x", "t" >>
S_buyer_pe_fund_txt == << "b", "u", "y", "e", "r", "_", "p", "e", "_", "f", "u", "n", "d", ".", "t", "x", "t" >>
S_report_txt == << "r", "e", "p", "o", "r", "t", ".", "t", "x", "t" >>

\* The names a .txt file of the sample directory can have.
FILES == {S_acme_company_txt, S_buyer_pe_fund_txt, S_report_txt}

\* The text of a readable file.
TextOf(name) == <<"the text of", name>>

\* The sample directories: at most MaxFiles files, each readable or not.
SampleDirs ==
    UNION { [S -> BOOLEAN] : S \in {T \in SUBSET FILES : Cardinality(T) <= MaxFiles} }

\* The JSON text of a company profile with the given confidence_score text.
ProfileJson(conf) ==
    << "{", QUOTE, "c", "o", "m", "p", "a", "n", "y", "_", "n", "a", "m", "e", QUOTE, ":", QUOTE, "A", "c", "m", "e", " ", "C", "o", "r", "p", QUOTE, ",", QUOTE, "i", "n", "d", "u", "s", "t", "r", "y", QUOTE, ":", QUOTE, "T", "e", "c", "h", "n", "o", "l", "o", "g", "y", QUOTE, ",", QUOTE, "r", "e", "v", "e", "n", "u", "e", "_", "r", "a", "n", "g", "e", QUOTE, ":", "n", "u", "l", "l", ",", QUOTE, "k", "e", "y", "_", "p", "r", "o", "d", "u", "c", "t", "s", QUOTE, ":", "[", "]", ",", QUOTE, "d", "e", "s", "c", "r", "i", "p", "t", "i", "o", "n", QUOTE, ":", QUOTE, "S", "a", "a", "S", QUOTE, ",", QUOTE, "c", "o", "n", "f", "i", "d", "e", "n", "c", "e", "_", "s", "c", "o", "r", "e", QUOTE, ":" >>
    \o conf \o <<"}">>

\* The completions the endpoint can return: a name for each, and its text.
CONTENTS ==
    { "fenced 0.92", "plain 1.0", "plain 0.0", "tie 0.12345", "over 1.00001",
      "under -0.00001", "str 1.5", "NaN", "no JSON", "bad JSON", "missing field" }

ContentOf(name) ==
    CASE name = "fenced 0.92" ->
            FENCE \o S_json \o <<NL>> \o ProfileJson(<<"0", ".", "9", "2">>) \o <<NL>> \o FENCE
      [] name = "plain 1.0" -> ProfileJson(<<"1", ".", "0">>)
      [] name = "plain 0.0" -> ProfileJson(<<"0", ".", "0">>)
      [] name = "tie 0.12345" -> ProfileJson(<<"0", ".", "1", "2", "3", "4", "5">>)
      [] name = "over 1.00001" -> ProfileJson(<<"1", ".", "0", "0", "0", "0", "1">>)
      [] name = "under -0.00001" -> ProfileJson(<<"-", "0", ".", "0", "0", "0", "0", "1">>)
      [] name = "str 1.5" -> ProfileJson(<<QUOTE, "1", ".", "5", QUOTE>>)
      [] name = "NaN" -> ProfileJson(S_NaN)
      [] name = "no JSON" -> << "I", " ", "c", "a", "n", "n", "o", "t", " ", "e", "x", "t", "r", "a", "c", "t", " ", "t", "h", "a", "t", "." >>
      [] name = "bad JSON" -> << "{", QUOTE, "c", "o", "m", "p", "a", "n", "y", "_", "n", "a", "m", "e", QUOTE, ":", QUOTE, "A", "c", "m", "e", " ", "C", "o", "r", "p", QUOTE, ",", "}" >>
      [] name = "missing field" -> << "{", QUOTE, "c", "o", "m", "p", "a", "n", "y", "_", "n", "a", "m", "e", QUOTE, ":", QUOTE, "A", "c", "m", "e", " ", "C", "o", "r", "p", QUOTE, ",", QUOTE, "c", "o", "n", "f", "i", "d", "e", "n", "c", "e", "_", "s", "c", "o", "r", "e", QUOTE, ":", "0", ".", "9", "}" >>

\* What can happen to one request: the connection fails, the read times out,
\* the status is not 2xx, the body is not JSON, the body has no "choices",
\* "choices" is empty, the message content is null, or a completion arrives.
RESPONSES ==
    { "ConnectError", "ReadTimeout", "HTTP 500", "body not JSON", "no choices",
      "empty choices", "null content" } \cup CONTENTS

-----------------------------------------------------------------------------
(* src/pipeline.py: extract_to_json, process_file, main                    *)

\* Lines 142-149 of one attempt: post, raise_for_status, response.json(),
\* data["choices"][0]["message"]["content"], extract_json_from_text,
\* schema_class(**extracted).  The possible results on a response.
TryOnce(response, schema_class) ==
    CASE response = "ConnectError" ->
            {Raise(Exc("ConnectError", "All connection attempts failed", <<>>, <<>>))}
      [] response = "ReadTimeout" ->
            {Raise(Exc("ReadTimeout", "The read operation timed out", <<>>, <<>>))}
      [] response = "HTTP 500" ->
            {Raise(Exc("HTTPStatusError", "Server error 500 for url", <<>>, <<>>))}
      [] response = "body not JSON" ->
            {Raise(Exc("JSONDecodeError", "msg: line column (char pos)", <<>>, <<"<", "h", "t", "m", "l", ">">>))}
      [] response = "no choices" ->
            {Raise(Exc("KeyError", "choices", <<>>, <<>>))}
      [] response = "empty choices" ->
            {Raise(Exc("IndexError", "list index out of range", <<>>, <<>>))}
      [] response = "null content" ->
            {Raise(Exc("TypeError", "expected string or bytes-like object", <<>>, <<>>))}
      [] OTHER ->
            LET extracted == extract_json_from_text(ContentOf(response))
            IN  IF extracted.ok THEN Construct(schema_class, extracted.val[2])
                ELSE {Raise(extracted.exc)}

\* TryOnce, tabulated once for the responses and schemas of the model.
AttemptTable ==
    [response \in RESPONSES, schema_class \in {"CompanyProfile", "BuyerProfile"} |->
        TryOnce(response, schema_class)]

AttemptOutcomes(response, schema_class) == AttemptTable[response, schema_class]

\* The except clauses of extract_to_json: httpx.HTTPStatusError, and
\* (json.JSONDecodeError, KeyError, ValueError).
Caught(exc) ==
    \/ IsSubclass(exc.type, "HTTPStatusError")
    \/ IsSubclass(exc.type, "JSONDecodeError")
    \/ IsSubclass(exc.type, "KeyError")
    \/ IsSubclass(exc.type, "ValueError")

\* str(exc)
StrOf(exc) == <<exc.text>> \o exc.excerpt

\* The RuntimeError raised after the loop.
Exhausted(last) ==
    Exc("RuntimeError", "Failed after MAX_RETRIES + 1 attempts. Last error: ",
        StrOf(last), <<>>)

NoProfile == [type |-> "None", data |-> <<>>]

\* The dict process_file returns on success.
SuccessOutcome(name, schema_class, p) ==
    [file |-> name,
     company |-> p.data["company_name"][2],
     schema |-> schema_class,
     confidence |-> p.data["confidence_score"][2],
     status |-> "OK"]

\* The dict process_file returns from its except clause.
FailureOutcome(name, schema_class, exc) ==
    [file |-> name,
     company |-> <<"-">>,
     schema |-> schema_class,
     confidence |-> 0,
     status |-> exc.type]

\* The file main() is processing and its schema.
CurrentFile == txt_files[idx]
CurrentSchema == infer_schema(CurrentFile)

\* main(): results.append(result), then the next file of the loop.
AppendResult(result) ==
    /\ results' = Append(results, result)
    /\ IF idx < Len(txt_files)
       THEN idx' = idx + 1 /\ pc' = "read"
       ELSE idx' = idx /\ pc' = "done"

\* The databases DB_PATH can hold when main() starts: none, or the one an
\* earlier run left.
OldProfile ==
    (CHOOSE r \in Construct("CompanyProfile",
                            extract_json_from_text(ContentOf("fenced 0.92")).val[2]) : TRUE).val

InitialDbs ==
    { NewDb, store_result(init_db(NewDb).db, OldProfile, PathOf(S_report_txt), UTCNOW).db }

\* No function is applied on its own during the batch run.
Idle == arg = <<>> /\ ret = <<>>

Init ==
    /\ pc = "config"
    /\ env_token \in {"", "dapi-token"}
    /\ sample_dir \in SampleDirs
    /\ db \in InitialDbs
    /\ txt_files = <<>>
    /\ idx = 0
    /\ results = <<>>
    /\ endpoint = "not asked"
    /\ body = <<>>
    /\ attempt = 0
    /\ last_exc = NoExc
    /\ profile = NoProfile
    /\ requests = <<>>
    /\ raised = NoExc
    /\ Idle

\* main(), lines 254-258: load_config; without a token, SystemExit(1).
LoadConfig ==
    /\ pc = "config"
    /\ pc' = IF env_token = "" THEN "exit 1" ELSE "init_db"
    /\ UNCHANGED <<env_token, sample_dir, db, txt_files, idx, results,
                   endpoint, body, attempt, last_exc, profile, requests, raised,
                   arg, ret>>

\* main(), line 261: init_db(DB_PATH).  An error is not caught: the run ends.
InitDb ==
    /\ pc = "init_db"
    /\ \E r \in {init_db(db), StorageFailure(db)} :
          /\ db' = r.db
          /\ IF r.ok THEN pc' = "discover" /\ raised' = raised
             ELSE pc' = "crashed" /\ raised' = r.exc
    /\ UNCHANGED <<env_token, sample_dir, txt_files, idx, results,
                   endpoint, body, attempt, last_exc, profile, requests, arg, ret>>

\* main(), lines 265-270: the sorted list of the .txt files; none,
\* SystemExit(0).
Discover ==
    /\ pc = "discover"
    /\ txt_files' = SortedSeq(DOMAIN sample_dir)
    /\ IF DOMAIN sample_dir = {}
       THEN pc' = "exit 0" /\ idx' = idx
       ELSE pc' = "read" /\ idx' = 1
    /\ UNCHANGED <<env_token, sample_dir, db, results, endpoint, body,
                   attempt, last_exc, profile, requests, raised, arg, ret>>

\* main() lines 275-276 and process_file lines 222-223, then extract_to_json
\* lines 121-134: infer the schema, read the file (outside the try: an error
\* leaves process_file and main), build the request body.
ReadFile ==
    /\ pc = "read"
    /\ IF sample_dir[CurrentFile]
       THEN /\ body' = RequestBody(TextOf(CurrentFile), CurrentSchema)
            /\ attempt' = 1
            /\ pc' = "attempt"
            /\ raised' = NoExc
       ELSE /\ raised' = Exc("UnicodeDecodeError", "codec cannot decode byte", <<>>, <<>>)
            /\ pc' = "crashed"
            /\ UNCHANGED <<body, attempt>>
    /\ last_exc' = NoExc
    /\ profile' = NoProfile
    /\ requests' = <<>>
    /\ endpoint' \in (IF sample_dir[CurrentFile] THEN RESPONSES ELSE {endpoint})
    /\ UNCHANGED <<env_token, sample_dir, db, txt_files, idx, results, arg, ret>>

\* The backoff counted from the retry number instead of the attempt number.
Backoff_from_retry(k) == IF k > 1 THEN (k - 1) * 2 ELSE 0

\* Lines 137-140: the seconds time.sleep blocks at the start of iteration k
\* of the loop, before the request is posted (none in the first).
Backoff(k) == IF k > 1 THEN k * 2 ELSE 0

\* One iteration of the loop of extract_to_json (lines 135-156) and, when it
\* ends the call with an exception, lines 158-160 and the except clause of
\* process_file (lines 236-244) with the append of main().  The locals of
\* extract_to_json are gone when the call ends; the next response of the
\* endpoint is drawn while a next attempt is possible.
Attempt ==
    /\ pc = "attempt"
    /\ requests' = Append(requests, [attempt |-> attempt, wait |-> Backoff(attempt),
                                     body |-> body])
    /\ LET schema_class == CurrentSchema
       IN  \E out \in AttemptOutcomes(endpoint, schema_class) :
              IF out.ok
              THEN /\ profile' = out.val
                   /\ pc' = "store"
                   /\ attempt' = 0
                   /\ last_exc' = NoExc
                   /\ UNCHANGED <<raised, results, idx, endpoint>>
              ELSE IF Caught(out.exc) /\ attempt < MAX_RETRIES + 1
              THEN /\ last_exc' = out.exc
                   /\ attempt' = attempt + 1
                   /\ endpoint' \in RESPONSES
                   /\ UNCHANGED <<pc, raised, results, idx, profile>>
              ELSE LET exc == IF Caught(out.exc) THEN Exhausted(out.exc) ELSE out.exc
                   IN  /\ raised' = exc
                       /\ AppendResult(FailureOutcome(CurrentFile, schema_class, exc))
                       /\ attempt' = 0
                       /\ last_exc' = NoExc
                       /\ endpoint' \in (IF attempt < MAX_RETRIES + 1 THEN RESPONSES
                                         ELSE {endpoint})
                       /\ UNCHANGED profile
    /\ UNCHANGED <<env_token, sample_dir, db, txt_files, body, arg, ret>>

\* Store with the error of store_result swallowed: the success dict is
\* returned although nothing was stored.
Store_swallow ==
    /\ pc = "store"
    /\ \E r \in {store_result(db, profile, PathOf(CurrentFile), UTCNOW),
                 StorageFailure(db)} :
          /\ db' = r.db
          /\ AppendResult(SuccessOutcome(CurrentFile, CurrentSchema, profile))
    /\ profile' = NoProfile
    /\ UNCHANGED <<env_token, sample_dir, txt_files, endpoint, body,
                   attempt, last_exc, requests, raised, arg, ret>>

\* process_file lines 227-235 (store_result, return the success dict) or,
\* when store_result raises, lines 236-244; then the append of main().
Store ==
    /\ pc = "store"
    /\ \E r \in {store_result(db, profile, PathOf(CurrentFile), UTCNOW),
                 StorageFailure(db)} :
          /\ db' = r.db
          /\ IF r.ok
             THEN AppendResult(SuccessOutcome(CurrentFile, CurrentSchema, profile))
             ELSE AppendResult(FailureOutcome(CurrentFile, CurrentSchema, r.exc))
    /\ profile' = NoProfile
    /\ UNCHANGED <<env_token, sample_dir, txt_files, endpoint, body,
                   attempt, last_exc, requests, raised, arg, ret>>

Next ==
    \/ LoadConfig
    \/ InitDb
    \/ Discover
    \/ ReadFile
    \/ Attempt
    \/ Store

Spec == Init /\ [][Next]_vars

-----------------------------------------------------------------------------
(* infer_schema applied to filenames                                       *)

\* The batch run's variables while a function is applied on its own.
RunIdle ==
    /\ env_token = ""
    /\ sample_dir = <<>>
    /\ txt_files = <<>>
    /\ idx = 0
    /\ results = <<>>
    /\ endpoint = "not asked"
    /\ body = <<>>
    /\ attempt = 0
    /\ last_exc = NoExc
    /\ profile = NoProfile
    /\ requests = <<>>
    /\ raised = NoExc

\* The number of parts a filename is put together from, at most.
MaxParts == 3

NameParts ==
    { S_company, << "B", "u", "y", "e", "r" >>, << "P", "E" >>, << "C", "a", "p", "i", "t", "a", "l" >>,
      << "V", "E", "N", "T", "U", "R", "E", "S" >>, << "r", "e", "p", "o", "r", "t" >>, << "c", "o", "m" >>,
      <<"p">>, <<"e">>, <<"_">>, << ".", "t", "x", "t" >> }

\* The concatenations of at most n parts.
RECURSIVE Concats(_, _)
Concats(parts, n) ==
    IF n = 0 THEN {<<>>}
    ELSE LET shorter == Concats(parts, n - 1)
         IN  shorter \cup {x \o y : x \in shorter, y \in parts}

FileNameInputs == Concats(NameParts, MaxParts) \cup FILES

InitInfer ==
    /\ pc = "call infer_schema"
    /\ arg \in FileNameInputs
    /\ ret = "None"
    /\ db = NewDb
    /\ RunIdle

InferCall ==
    /\ pc = "call infer_schema"
    /\ ret' = infer_schema(arg)
    /\ pc' = "infer_schema returned"
    /\ UNCHANGED <<arg, db, runVarsButPc>>

NextInfer == InferCall

SpecInfer == InitInfer /\ [][NextInfer]_vars

-----------------------------------------------------------------------------
(* extract_json_from_text applied to responses                             *)

\* The length of the value of the one-member JSON objects, at most.
MaxStrLen == 4
\* The length of the free texts, at most.
MaxTextLen == 4

\* All strings over the characters cs of length at most n.
Strings(cs, n) == Concats({<<c>> : c \in cs}, n)

\* JSON object texts {"k":"S"}: S may hold backticks, braces and blanks.
ObjectTexts ==
    { <<"{", QUOTE, "k", QUOTE, ":", QUOTE>> \o str \o <<QUOTE, "}">> :
        str \in Strings({"a", BT, " ", "{", "}"}, MaxStrLen) }

\* Texts with or without a span from a brace to a brace.
FreeTexts == Strings({"{", "}", "a", BT, " ", QUOTE, ":"}, MaxTextLen)

\* Texts longer than the excerpt of the error message.
Padding == [i \in 1..(EXCERPT_LEN + 1) |-> "a"]
LongTexts ==
    { head \o Padding \o tail : head \in Strings({"{", "}", NL}, 1),
                                tail \in Strings({"{", "}", BT}, 1) }

\* The text wrapped in Markdown code fences.
Wrap(how, text) ==
    CASE how = "fence json" -> FENCE \o S_json \o <<NL>> \o text \o <<NL>> \o FENCE
      [] how = "fence" -> FENCE \o text \o FENCE
      [] OTHER -> text

ParseInputs ==
    { [raw |-> Wrap(how, text), text |-> text, wrap |-> how] :
        how \in {"fence json", "fence", "none"}, text \in ObjectTexts \cup FreeTexts }
    \cup { [raw |-> text, text |-> text, wrap |-> "none"] : text \in LongTexts }

InitParse ==
    /\ pc = "call extract_json_from_text"
    /\ arg \in ParseInputs
    /\ ret = Raise(NoExc)
    /\ db = NewDb
    /\ RunIdle

ParseCall ==
    /\ pc = "call extract_json_from_text"
    /\ ret' = extract_json_from_text(arg.raw)
    /\ pc' = "extract_json_from_text returned"
    /\ UNCHANGED <<arg, db, runVarsButPc>>

NextParse == ParseCall

SpecParse == InitParse /\ [][NextParse]_vars

-----------------------------------------------------------------------------
(* init_db and store_result called in any order on one database            *)

\* The number of rows stored, at most.
MaxRows == 3

\* The profiles stored: what CompanyProfile validates of two completions of
\* the model.
PROFILES ==
    { r.val : r \in { x \in UNION { AttemptOutcomes(c, "CompanyProfile") :
                                      c \in {"fenced 0.92", "plain 0.0"} } : x.ok } }

InitStore ==
    /\ pc = "storage"
    /\ arg = <<"none">>
    /\ ret = [ok |-> TRUE, exc |-> NoExc, io |-> TRUE]
    /\ db = NewDb
    /\ RunIdle

\* init_db(DB_PATH), on a database SQLite can open or cannot.
InitDbCall ==
    /\ pc = "storage"
    /\ \E io \in BOOLEAN :
          LET r == IF io THEN init_db(db) ELSE StorageFailure(db)
          IN  /\ db' = r.db
              /\ ret' = [ok |-> r.ok, exc |-> r.exc, io |-> io]
    /\ arg' = <<"init_db">>
    /\ UNCHANGED runVars

\* store_result(profile, source_file, DB_PATH), likewise.
StoreCall ==
    /\ pc = "storage"
    /\ Len(db.rows) < MaxRows
    /\ \E p \in PROFILES, name \in FILES, io \in BOOLEAN :
          LET r == IF io THEN store_result(db, p, PathOf(name), UTCNOW)
                   ELSE StorageFailure(db)
          IN  /\ db' = r.db
              /\ ret' = [ok |-> r.ok, exc |-> r.exc, io |-> io]
              /\ arg' = <<"store_result", p, PathOf(name)>>
    /\ UNCHANGED runVars

NextStore ==
    \/ InitDbCall
    \/ StoreCall

SpecStore == InitStore /\ [][NextStore]_vars

-----------------------------------------------------------------------------
(* Properties of extract_to_json, process_file and main (checked on Spec)  *)

\* The responses on which an attempt returns a validated profile.
Succeeds(response) == \A out \in AttemptOutcomes(response, CurrentSchema) : out.ok

\* A step of Attempt that ends the call of extract_to_json with an exception.
CallRaises == pc = "attempt" /\ Len(results') = Len(results) + 1

\* C1: every failed attempt k < MAX_RETRIES + 1 (transport failure, non-2xx
\* status, malformed body, missing field, parse failure, validation failure)
\* is followed by attempt k + 1 on the same request body; no failure ends the
\* attempt sequence early.
C1_EveryFailureIsRetried ==
    [][ (pc = "attempt" /\ attempt < MAX_RETRIES + 1 /\ pc' # "store")
            => /\ pc' = "attempt"
               /\ attempt' = attempt + 1
               /\ body' = body
               /\ idx' = idx ]_vars

\* C2: extract_to_json never makes more than MAX_RETRIES + 1 requests; when
\* it raises, it has made exactly MAX_RETRIES + 1 requests, the error is the
\* one aggregated RuntimeError, which carries the message of the last
\* attempt's failure, and no profile is returned or stored.
C2_ExhaustionAfterAllAttempts ==
    [][ /\ Len(requests') <= MAX_RETRIES + 1
        /\ CallRaises
              => /\ attempt = MAX_RETRIES + 1
                 /\ Len(requests') = MAX_RETRIES + 1
                 /\ raised'.type = "RuntimeError"
                 /\ \E out \in AttemptOutcomes(endpoint, CurrentSchema) :
                        ~out.ok /\ raised'.excerpt = StrOf(out.exc)
                 /\ profile' = NoProfile
                 /\ db' = db ]_vars

\* C3: the call stops at the first successful attempt: an attempt k whose
\* response parses and validates returns that profile after exactly k
\* requests and no request follows it; and when attempt k fails, k <=
\* MAX_RETRIES, and the endpoint would answer the next request with a valid
\* response, that request is made.
C3_StopsAtFirstSuccess ==
    [][ /\ (pc = "attempt" /\ Succeeds(endpoint))
              => /\ pc' = "store"
                 /\ Return(profile') \in AttemptOutcomes(endpoint, CurrentSchema)
                 /\ Len(requests') = attempt
        /\ pc = "store" => requests' = requests
        /\ (pc = "attempt" /\ ~Succeeds(endpoint) /\ attempt <= MAX_RETRIES
                /\ endpoint' \in RESPONSES /\ Succeeds(endpoint'))
              => pc' = "attempt" /\ attempt' = attempt + 1 ]_vars

\* C4: no error of a single file leaves process_file: main() crashes only in
\* init_db, before any file is processed, and a run that discovers n files
\* ends with n outcomes, one per file, in sorted file order.
C4_PerFileErrorsCaught ==
    /\ pc = "crashed" => idx = 0 /\ results = <<>>
    /\ pc \in {"read", "attempt", "store"}
          => /\ Len(results) = idx - 1
             /\ \A i \in 1..Len(results) : results[i].file = txt_files[i]
    /\ pc = "done"
          => /\ Len(results) = Len(txt_files)
             /\ \A i \in 1..Len(results) : results[i].file = txt_files[i]
             /\ \A i \in 1..(Len(txt_files) - 1) : StrLess(txt_files[i], txt_files[i + 1])

\* C5: outcome and store agree: the step in which process_file returns a
\* success outcome appends exactly one row, of that file and profile, and
\* changes no other row; the step in which it returns a failure outcome
\* leaves the rows as they were; no other step adds a row.
C5_OutcomeMatchesStore ==
    [][ /\ Len(results') = Len(results) + 1
              => LET o == results'[Len(results')]
                     n == Len(db.rows)
                 IN  IF o.status = "OK"
                     THEN /\ Len(db'.rows) = n + 1
                          /\ SubSeq(db'.rows, 1, n) = db.rows
                          /\ db'.rows[n + 1].source_file = PathOf(o.file)
                          /\ db'.rows[n + 1].company_name = o.company
                          /\ db'.rows[n + 1].confidence_score = o.confidence
                     ELSE db'.rows = db.rows
        /\ Len(results') = Len(results) => db'.rows = db.rows ]_vars

\* A run over two files has ended: the first succeeded and has its one row,
\* the second failed and has none.
C5_Witness ==
    /\ pc = "done"
    /\ Len(results) = 2
    /\ results[1].status = "OK"
    /\ results[2].status # "OK"
    /\ Len(db.rows) = 1
    /\ db.rows[1].source_file = PathOf(results[1].file)

\* The confidence_score each completion of the model states, in units of
\* 1/SCALE: the values round(v, 4) can give it, or none when it is outside
\* [0, 1].
StatedConfidence(response) ==
    CASE response = "fenced 0.92" -> {92000}
      [] response = "plain 1.0" -> {100000}
      [] response = "plain 0.0" -> {0}
      [] response = "tie 0.12345" -> {12340, 12350}
      [] OTHER -> {}

OutOfRange == {"over 1.00001", "under -0.00001", "str 1.5", "NaN"}
InRange == {"fenced 0.92", "plain 1.0", "plain 0.0", "tie 0.12345"}

\* C6: every row ever stored has confidence_score in [0, 1]; a response whose
\* confidence_score is outside [0, 1] fails the attempt (it is retried while
\* attempts are left, and nothing is stored), never clamped; a response
\* whose confidence_score is inside is accepted, and the row stored carries
\* the accepted value.
C6_ConfidenceInRange ==
    [][ /\ \A i \in 1..Len(db'.rows) :
              0 <= db'.rows[i].confidence_score /\ db'.rows[i].confidence_score <= SCALE
        /\ (pc = "attempt" /\ endpoint \in OutOfRange)
              => /\ pc' # "store"
                 /\ profile' = NoProfile
                 /\ db' = db
                 /\ attempt < MAX_RETRIES + 1 => pc' = "attempt" /\ attempt' = attempt + 1
        /\ (pc = "attempt" /\ endpoint \in InRange)
              => /\ pc' = "store"
                 /\ profile'.data["confidence_score"][2] \in StatedConfidence(endpoint)
        /\ (pc = "store" /\ Len(db'.rows) > Len(db.rows))
              => db'.rows[Len(db'.rows)].confidence_score
                    = profile.data["confidence_score"][2] ]_vars

\* The first file was stored with the confidence 1.0 it stated; for the
\* second, a response was rejected for its confidence_score alone.
C6_Witness ==
    /\ pc = "attempt"
    /\ attempt = 2
    /\ last_exc.type = "ValidationError"
    /\ last_exc.excerpt = <<"confidence_score">>
    /\ Len(results) = 1
    /\ results[1].status = "OK"
    /\ \E i \in 1..Len(db.rows) :
          /\ db.rows[i].source_file = PathOf(txt_files[1])
          /\ db.rows[i].confidence_score = SCALE

-----------------------------------------------------------------------------
(* Properties of infer_schema (checked on SpecInfer)                       *)

\* C7: infer_schema returns the variant of the first keyword, in the order
\* company, buyer, pe, capital, ventures, that is a substring of the
\* lower-cased filename, and CompanyProfile when there is none.
C7_InferSchemaFirstKeyword ==
    pc = "infer_schema returned"
        => LET has(k) == Contains(Lower(arg), k)
           IN  /\ ret = IF has(S_company) THEN "CompanyProfile"
                        ELSE IF has(S_buyer) THEN "BuyerProfile"
                        ELSE IF has(S_pe) THEN "BuyerProfile"
                        ELSE IF has(S_capital) THEN "BuyerProfile"
                        ELSE IF has(S_ventures) THEN "BuyerProfile"
                        ELSE "CompanyProfile"
               /\ arg = S_buyer_pe_fund_txt => ret = "BuyerProfile"
               /\ arg = S_acme_company_txt => ret = "CompanyProfile"
               /\ arg = S_report_txt => ret = "CompanyProfile"

\* A filename that holds a buyer keyword before "company" (in capitals or
\* not) has been resolved to CompanyProfile.
C7_Witness ==
    /\ pc = "infer_schema returned"
    /\ Contains(Lower(arg), S_buyer)
    /\ Contains(arg, S_company)
    /\ ~Contains(arg, S_buyer)
    /\ ret = "CompanyProfile"

-----------------------------------------------------------------------------
(* Properties of extract_json_from_text (checked on SpecParse)             *)

\* The text holds a "{" and, at or after it, a "}".
HasBraceSpan(text) ==
    \E i \in 1..Len(text) : \E j \in i..Len(text) : text[i] = "{" /\ text[j] = "}"

\* C8: a valid JSON object text wrapped in Markdown code fences parses to the
\* object that json.loads gives for the unwrapped text.
C8_FenceRoundTrip ==
    (/\ pc = "extract_json_from_text returned"
     /\ arg.wrap # "none"
     /\ json_loads(arg.text).ok
     /\ json_loads(arg.text).val[1] = "obj")
        => ret = json_loads(arg.text)

\* C9 as stated: whenever the parser fails, for want of a brace span or
\* because the span is not valid JSON, the error carries the excerpt
\* raw[:200] of the text, and that is at most EXCERPT_LEN characters.
C9_EveryFailureCarriesExcerpt ==
    (pc = "extract_json_from_text returned" /\ ~ret.ok)
        => /\ ret.exc.excerpt = Repr(Take(arg.raw, EXCERPT_LEN))
           /\ Len(Take(arg.raw, EXCERPT_LEN)) <= EXCERPT_LEN
           /\ ret.exc.doc = <<>>

\* C9, amended: the parser returns an object in neither failure case.
\* Without a brace span the error is a ValueError whose message carries the
\* first EXCERPT_LEN characters of the text (their repr).  With a span that
\* is not valid JSON the error is the JSON decoder's own: its message holds
\* no excerpt of the text, and it carries the whole span, untruncated.
C9_ParseFailures ==
    pc = "extract_json_from_text returned"
        => LET cleaned == Cleaned(arg.raw)
               opens   == {i \in 1..Len(cleaned) : cleaned[i] = "{"}
               closes  == {i \in 1..Len(cleaned) : cleaned[i] = "}"}
               lo      == CHOOSE x \in opens : \A y \in opens : x <= y
               hi      == CHOOSE x \in closes : \A y \in closes : x >= y
           IN  /\ ~HasBraceSpan(arg.raw)
                     => /\ ~ret.ok
                        /\ ret.exc.type = "ValueError"
                        /\ \E n \in 0..EXCERPT_LEN :
                              /\ n = Len(arg.raw) \/ (n = EXCERPT_LEN /\ n < Len(arg.raw))
                              /\ ret.exc.excerpt = Repr(SubSeq(arg.raw, 1, n))
                        /\ ret.exc.doc = <<>>
               /\ (HasBraceSpan(arg.raw) /\ ~json_loads(SubSeq(cleaned, lo, hi)).ok)
                     => /\ ~ret.ok
                        /\ ret.exc.type = "JSONDecodeError"
                        /\ ret.exc.excerpt = <<>>
                        /\ ret.exc.doc = SubSeq(cleaned, lo, hi)

\* Both failures have happened on a text longer than the excerpt: one
\* without a brace span, which the error cut to EXCERPT_LEN characters...
C9_Witness ==
    /\ pc = "extract_json_from_text returned"
    /\ Len(arg.raw) > EXCERPT_LEN
    /\ ~HasBraceSpan(arg.raw)
    /\ ~ret.ok
    /\ Len(ret.exc.excerpt) = EXCERPT_LEN + 2

\* ... and one with a span that is not valid JSON.
C9_WitnessInvalidSpan ==
    /\ pc = "extract_json_from_text returned"
    /\ Len(arg.raw) > EXCERPT_LEN
    /\ HasBraceSpan(arg.raw)
    /\ ~ret.ok
    /\ Len(ret.exc.doc) > EXCERPT_LEN

-----------------------------------------------------------------------------
(* Properties of init_db and store_result (checked on SpecStore)           *)

\* C10: the rows are an append-only log.  Every call leaves the rows that
\* were there in place and unchanged; a store_result that returns adds
\* exactly one row, the one of its arguments, with a fresh id; an init_db on
\* a database that has the table and can be opened raises nothing and leaves
\* the database as it was.
C10_AppendOnly ==
    [][ LET n == Len(db.rows)
        IN  /\ Len(db'.rows) >= n
            /\ SubSeq(db'.rows, 1, n) = db.rows
            /\ (arg'[1] = "store_result" /\ ret'.ok)
                  => /\ Len(db'.rows) = n + 1
                     /\ db'.rows[n + 1].source_file = arg'[3]
                     /\ db'.rows[n + 1].schema_type = arg'[2].type
                     /\ \A i \in 1..n : db.rows[i].id # db'.rows[n + 1].id
            /\ (arg'[1] = "store_result" /\ ~ret'.ok) => db' = db
            /\ (arg'[1] = "init_db" /\ db.table /\ ret'.io)
                  => ret'.ok /\ db' = db
            /\ arg'[1] = "init_db" => db'.rows = db.rows ]_vars

\* A second init_db has returned on a database that holds two rows of the
\* same file.
C10_Witness ==
    /\ arg[1] = "init_db"
    /\ ret.ok
    /\ db.table
    /\ Len(db.rows) = 2
    /\ db.rows[1].source_file = db.rows[2].source_file
    /\ db.rows[1].id # db.rows[2].id

-----------------------------------------------------------------------------
(* Properties of process_file when the storage write fails (checked on     *)
(* Spec)                                                                   *)

\* C11: when extraction of a file has succeeded and store_result fails, the
\* outcome process_file returns for the file names the storage error and
\* still carries the validated profile's company name and confidence, and
\* no row is written.
C11_StorageFailureKeepsProfile ==
    [][ (pc = "store" /\ Len(db'.rows) = Len(db.rows))
            => LET o == results'[Len(results')]
               IN  /\ Len(results') = Len(results) + 1
                   /\ o.file = CurrentFile
                   /\ o.status = "OperationalError"
                   /\ o.company = profile.data["company_name"][2]
                   /\ o.confidence = profile.data["confidence_score"][2]
                   /\ db' = db ]_vars

-----------------------------------------------------------------------------
(* Properties of the backoff of extract_to_json (checked on Spec)          *)

\* C12: no wait precedes the request of attempt 1; the request of every
\* attempt k >= 2 is made after attempt k - 1 has failed and after a wait of
\* exactly k * 2 seconds (4 before attempt 2, 6 before attempt 3); every
\* request of a call carries the same body, system prompt and user text.
C12_BackoffSchedule ==
    [][ Len(requests') = Len(requests) + 1
            => LET k == Len(requests')
                   r == requests'[k]
               IN  /\ SubSeq(requests', 1, k - 1) = requests
                   /\ r.attempt = k
                   /\ k = 1 => r.wait = 0 /\ last_exc = NoExc
                   /\ k = 2 => r.wait = 4
                   /\ k = 3 => r.wait = 6
                   /\ k >= 2 => /\ r.wait = k * 2
                                /\ last_exc # NoExc
                                /\ r.body = requests[k - 1].body
                   /\ r.body = RequestBody(TextOf(CurrentFile), CurrentSchema) ]_vars

\* The third attempt of a call has been made: after no wait, 4 s and 6 s,
\* with one body.
C12_Witness ==
    /\ Len(requests) = 3
    /\ requests[1].wait = 0
    /\ requests[2].wait = 4
    /\ requests[3].wait = 6
    /\ requests[1].body = requests[3].body
    /\ requests[2].body = requests[3].body

=============================================================================
